---- MODULE Spec2Model ----
(***************************************************************************)
(* World Cup dashboard (functions.py): the module-level data preparation   *)
(* (finals table -> df -> win_totals -> merged) followed by the two Dash   *)
(* callbacks display_win_count and show_final_result.                      *)
(*                                                                         *)
(* Tables are sequences of records (one record per row, one field per      *)
(* column).  A missing cell of a text column is NaN, a missing cell of a   *)
(* numeric column is NaNNum.  Python's None is the empty sequence and a    *)
(* present value v is <<v>>.  An f-string is the tuple of its literal and  *)
(* interpolated parts; the empty string '' returned in an f-string slot is *)
(* the empty tuple.                                                        *)
(***************************************************************************)
EXTENDS Integers, Sequences, FiniteSets, TLC

\* ---------------------------------------------------------------- bounds
MaxRows == 2      \* rows of the finals table fetched from the web page
MaxIso  == 2      \* rows of the ISO reference csv

\* ---------------------------------------------------- values of the model
NaN    == "nan"   \* missing text cell (formats as 'nan')
NaNNum == -1      \* missing numeric cell (counts are never negative)
None   == <<>>
Some(v) == <<v>>
EmptyStr == <<>>

DropYear == 2026

YearPool == {2014, 2026, 2030}
NamePool == {"West Germany", "Germany", "England"}
QueryYears == YearPool \cup {1942}
ClickNames == {"Germany", "France", "Brazil", "England"}

\* lexicographic order of every country name of the model (groupby sorts keys)
NameOrder == <<"Brazil", "England", "France", "Germany", "West Germany">>

\* a final either has a result (two different teams) or none at all
RawRows ==
    {[Year |-> y, Winners |-> w, Score |-> "s", RunnersUp |-> r] :
        y \in YearPool, w \in NamePool, r \in NamePool}
    \cup {[Year |-> y, Winners |-> NaN, Score |-> NaN, RunnersUp |-> NaN] : y \in YearPool}

\* the page lists one row per edition, in chronological order
RawTables ==
    {t \in UNION {[1..n -> RawRows] : n \in 0..MaxRows} :
        /\ \A i \in 1..Len(t) : t[i].Winners = NaN \/ t[i].Winners # t[i].RunnersUp
        /\ \A i \in 1..Len(t) : \A j \in 1..Len(t) : i < j => t[i].Year < t[j].Year}

IsoPool ==
    << [COUNTRY |-> "Brazil",  GDP |-> 2244, CODE |-> "BRA"],
       [COUNTRY |-> "France",  GDP |-> 2902, CODE |-> "FRA"],
       [COUNTRY |-> "Germany", GDP |-> 3820, CODE |-> "DEU"] >>

\* the csv lists each country once
IsoCsvs ==
    {c \in UNION {[1..n -> {IsoPool[k] : k \in 1..Len(IsoPool)}] : n \in 0..MaxIso} :
        \A i \in 1..Len(c) : \A j \in 1..Len(c) : i < j => c[i].COUNTRY # c[j].COUNTRY}

\* ------------------------------------------------------- pandas operators
Map(f(_), s) == [i \in 1..Len(s) |-> f(s[i])]

RECURSIVE Flatten(_)
Flatten(ss) == IF ss = <<>> THEN <<>> ELSE Head(ss) \o Flatten(Tail(ss))

\* df[df['Year'] != 2026]
KeepRow(r) == r.Year # DropYear
DropEdition(d) == SelectSeq(d, KeepRow)

\* df[['Year', 'Winners', 'Runners-up']].copy()
Project(r) == [Year |-> r.Year, Winners |-> r.Winners, RunnersUp |-> r.RunnersUp]
TakeColumns(d) == Map(Project, d)

\* Series.replace({"West Germany": 'Germany'})
CountryAlias == [n \in {"West Germany"} |-> "Germany"]
Replace(v) == IF v \in DOMAIN CountryAlias THEN CountryAlias[v] ELSE v
ReplaceWinners(d) == [i \in 1..Len(d) |-> [d[i] EXCEPT !.Winners = Replace(@)]]
\* the Runners-up column left as read
ReplaceRunnersUp_Skip(d) == d
ReplaceRunnersUp(d) == [i \in 1..Len(d) |-> [d[i] EXCEPT !.RunnersUp = Replace(@)]]

\* df.groupby('Winners').size().reset_index(name='Wins'), then rename
\* Winners -> Country: one row per distinct key, keys sorted, NaN keys dropped
GroupSize(d, k) == Cardinality({i \in 1..Len(d) : d[i].Winners = k})
IsGroupKey(d, k) == k # NaN /\ GroupSize(d, k) > 0
GroupBySize(d) ==
    LET HasKey(k) == IsGroupKey(d, k)
        Row(k) == [Country |-> k, Wins |-> GroupSize(d, k)]
    IN  Map(Row, SelectSeq(NameOrder, HasKey))

\* iso.rename(columns={'COUNTRY':'Country', 'CODE':'ISO'})
RenameIso(r) == [Country |-> r.COUNTRY, GDP |-> r.GDP, ISO |-> r.CODE]

\* how='inner': a reference row without a WinTotal is lost
MergeRow_Inner(l, right) ==
    LET Match(w) == w.Country = l.Country
        Join(w) == [Country |-> l.Country, GDP |-> l.GDP, ISO |-> l.ISO, Wins |-> w.Wins]
    IN  Map(Join, SelectSeq(right, Match))

\* pd.merge(iso, win_totals, on='Country', how='left')
MergeRow(l, right) ==
    LET Match(w) == w.Country = l.Country
        Join(w) == [Country |-> l.Country, GDP |-> l.GDP, ISO |-> l.ISO, Wins |-> w.Wins]
        ms == SelectSeq(right, Match)
    IN  IF ms = <<>>
        THEN << [Country |-> l.Country, GDP |-> l.GDP, ISO |-> l.ISO, Wins |-> NaNNum] >>
        ELSE Map(Join, ms)
MergeLeft(left, right) == Flatten([i \in 1..Len(left) |-> MergeRow(left[i], right)])

\* fillna left out: a missing count stays missing
FillNa_Keep(v) == v

\* merged['Wins'].fillna(0)
FillNa(v) == IF v = NaNNum THEN 0 ELSE v
FillWins(m) == [i \in 1..Len(m) |-> [m[i] EXCEPT !.Wins = FillNa(@)]]

\* ------------------------------------------------------------ callbacks
\* merged.loc[merged['Country'] == country, 'Wins'].values
WinsValues(m, country) ==
    LET Match(r) == r.Country = country
        Wins(r) == r.Wins
    IN  Map(Wins, SelectSeq(m, Match))

\* f'{country} has won the World Cup {int(wins)} time(s)'
ClickText(country, wins) == <<country, " has won the World Cup ", wins, " time(s)">>

\* year in df['Year'].values
YearInDf(d, year) == \E i \in 1..Len(d) : d[i].Year = year

\* iloc[0] of the whole frame instead of the rows of the year
FirstRowOfYear_Unfiltered(d, year) == d[1]

\* df[df['Year'] == year].iloc[0]
FirstRowOfYear(d, year) ==
    LET Match(r) == r.Year = year
    IN  SelectSeq(d, Match)[1]

WinnerText(year, winner) == <<"World Cup Winner in ", year, ": ", winner>>
RunnerUpText(year, runnerup) == <<"Runner up in ", year, ": ", runnerup>>

\* the unknown-year branch returns no message
ShowFinalResultValue_NoMessage(d, year) ==
    IF year = None THEN <<"", EmptyStr, EmptyStr>>
    ELSE IF ~YearInDf(d, year[1]) THEN <<"", EmptyStr, EmptyStr>>
    ELSE LET row == FirstRowOfYear(d, year[1])
         IN  <<"", WinnerText(year[1], row.Winners), RunnerUpText(year[1], row.RunnersUp)>>

\* no test for None: None is in no Year column
ShowFinalResultValue_NoneInvalid(d, year) ==
    IF year = None THEN <<"Invalid WC year", EmptyStr, EmptyStr>>
    ELSE IF ~YearInDf(d, year[1]) THEN <<"Invalid WC year", EmptyStr, EmptyStr>>
    ELSE LET row == FirstRowOfYear(d, year[1])
         IN  <<"", WinnerText(year[1], row.Winners), RunnerUpText(year[1], row.RunnersUp)>>

\* show_final_result(year) -> (year-error, year-winner, year-runner-up)
ShowFinalResultValue(d, year) ==
    IF year = None THEN <<"", EmptyStr, EmptyStr>>
    ELSE IF ~YearInDf(d, year[1]) THEN <<"Invalid WC year", EmptyStr, EmptyStr>>
    ELSE LET row == FirstRowOfYear(d, year[1])
         IN  <<"", WinnerText(year[1], row.Winners), RunnerUpText(year[1], row.RunnersUp)>>

\* ----------------------------------------------------------------- state
VARIABLES
    pc,            \* next module-level statement, or "serve" once the app runs
    tables3,       \* tables[3] as read from the web page
    isoCsv,        \* the ISO csv as read
    df, win_totals, iso, merged,
    clickData,     \* wc-map.clickData
    yearInput,     \* year-input.value
    clickOutput,   \* click-output.children
    yearError, yearWinner, yearRunnerUp,
    raised         \* exception raised by the last callback run, "" if none

vars == <<pc, tables3, isoCsv, df, win_totals, iso, merged, clickData, yearInput,
          clickOutput, yearError, yearWinner, yearRunnerUp, raised>>

data == <<tables3, isoCsv, df, win_totals, iso, merged>>
widgets == <<clickData, yearInput, clickOutput, yearError, yearWinner, yearRunnerUp, raised>>

Init ==
    /\ pc = "load_finals"
    /\ tables3 \in RawTables
    /\ isoCsv \in IsoCsvs
    /\ df = <<>> /\ win_totals = <<>> /\ iso = <<>> /\ merged = <<>>
    /\ clickData = None /\ yearInput = None
    /\ clickOutput = None
    /\ yearError = "" /\ yearWinner = None /\ yearRunnerUp = None
    /\ raised = ""

\* line 14
LoadFinals ==
    /\ pc = "load_finals"
    /\ df' = tables3
    /\ pc' = "drop_2026"
    /\ UNCHANGED <<tables3, isoCsv, win_totals, iso, merged>>
    /\ UNCHANGED widgets

\* line 17
Drop2026 ==
    /\ pc = "drop_2026"
    /\ df' = DropEdition(df)
    /\ pc' = "take_columns"
    /\ UNCHANGED <<tables3, isoCsv, win_totals, iso, merged>>
    /\ UNCHANGED widgets

\* line 20
SelectColumns ==
    /\ pc = "take_columns"
    /\ df' = TakeColumns(df)
    /\ pc' = "alias_winners"
    /\ UNCHANGED <<tables3, isoCsv, win_totals, iso, merged>>
    /\ UNCHANGED widgets

\* line 23
NormaliseWinners ==
    /\ pc = "alias_winners"
    /\ df' = ReplaceWinners(df)
    /\ pc' = "alias_runners_up"
    /\ UNCHANGED <<tables3, isoCsv, win_totals, iso, merged>>
    /\ UNCHANGED widgets

\* line 24
NormaliseRunnersUp ==
    /\ pc = "alias_runners_up"
    /\ df' = ReplaceRunnersUp(df)
    /\ pc' = "win_totals"
    /\ UNCHANGED <<tables3, isoCsv, win_totals, iso, merged>>
    /\ UNCHANGED widgets

\* lines 37-38
Aggregate ==
    /\ pc = "win_totals"
    /\ win_totals' = GroupBySize(df)
    /\ pc' = "load_iso"
    /\ UNCHANGED <<tables3, isoCsv, df, iso, merged>>
    /\ UNCHANGED widgets

\* lines 41-42
LoadIso ==
    /\ pc = "load_iso"
    /\ iso' = Map(RenameIso, isoCsv)
    /\ pc' = "merge"
    /\ UNCHANGED <<tables3, isoCsv, df, win_totals, merged>>
    /\ UNCHANGED widgets

\* line 45
Merge ==
    /\ pc = "merge"
    /\ merged' = MergeLeft(iso, win_totals)
    /\ pc' = "fillna"
    /\ UNCHANGED <<tables3, isoCsv, df, win_totals, iso>>
    /\ UNCHANGED widgets

\* line 46
FillMissingWins ==
    /\ pc = "fillna"
    /\ merged' = FillWins(merged)
    /\ pc' = "page_load"
    /\ UNCHANGED <<tables3, isoCsv, df, win_totals, iso>>
    /\ UNCHANGED widgets

\* the page is opened: Dash runs each callback once with its input unset
PageLoad ==
    /\ pc = "page_load"
    /\ clickOutput' = EmptyStr
    /\ yearError' = ShowFinalResultValue(df, None)[1]
    /\ yearWinner' = ShowFinalResultValue(df, None)[2]
    /\ yearRunnerUp' = ShowFinalResultValue(df, None)[3]
    /\ pc' = "serve"
    /\ UNCHANGED <<clickData, yearInput, raised>>
    /\ UNCHANGED data

\* the click callback also writes the three year outputs
DisplayWinCount_ClearsYear(cd) ==
    /\ pc = "serve"
    /\ clickData' = cd
    /\ IF cd = None
       THEN clickOutput' = EmptyStr /\ raised' = ""
       ELSE LET country == cd[1].points[1].hovertext
                values == WinsValues(merged, country)
            IN  IF values = <<>>
                THEN clickOutput' = clickOutput /\ raised' = "IndexError"
                ELSE clickOutput' = ClickText(country, values[1]) /\ raised' = ""
    /\ yearError' = "" /\ yearWinner' = EmptyStr /\ yearRunnerUp' = EmptyStr
    /\ UNCHANGED <<pc, yearInput>>
    /\ UNCHANGED data

\* display_win_count, lines 156-162; an exception leaves the output as it was
DisplayWinCount(cd) ==
    /\ pc = "serve"
    /\ clickData' = cd
    /\ IF cd = None
       THEN clickOutput' = EmptyStr /\ raised' = ""
       ELSE LET country == cd[1].points[1].hovertext
                values == WinsValues(merged, country)
            IN  IF values = <<>>
                THEN clickOutput' = clickOutput /\ raised' = "IndexError"
                ELSE clickOutput' = ClickText(country, values[1]) /\ raised' = ""
    /\ UNCHANGED <<pc, yearInput, yearError, yearWinner, yearRunnerUp>>
    /\ UNCHANGED data

\* show_final_result, lines 172-180
ShowFinalResult(year) ==
    /\ pc = "serve"
    /\ yearInput' = year
    /\ yearError' = ShowFinalResultValue(df, year)[1]
    /\ yearWinner' = ShowFinalResultValue(df, year)[2]
    /\ yearRunnerUp' = ShowFinalResultValue(df, year)[3]
    /\ raised' = ""
    /\ UNCHANGED <<pc, clickData, clickOutput>>
    /\ UNCHANGED data

MapClick == \E c \in ClickNames : DisplayWinCount(Some([points |-> <<[hovertext |-> c]>>]))
ClickCleared == DisplayWinCount(None)
YearEntered == \E y \in QueryYears : ShowFinalResult(Some(y))
YearCleared == ShowFinalResult(None)

Next ==
    \/ LoadFinals
    \/ Drop2026
    \/ SelectColumns
    \/ NormaliseWinners
    \/ NormaliseRunnersUp
    \/ Aggregate
    \/ LoadIso
    \/ Merge
    \/ FillMissingWins
    \/ PageLoad
    \/ MapClick
    \/ ClickCleared
    \/ YearEntered
    \/ YearCleared

Spec == Init /\ [][Next]_vars

\* ------------------------------------------------------------ properties
Prepared == pc \in {"page_load", "serve"}
Serving == pc = "serve"

Rows(t) == {t[i] : i \in 1..Len(t)}
CountWon(t, k) == Cardinality({i \in 1..Len(t) : t[i].Winners = k})
ClickedCountry == clickData[1].points[1].hovertext

RECURSIVE SumWins(_)
SumWins(t) == IF t = <<>> THEN 0 ELSE Head(t).Wins + SumWins(Tail(t))

\* C1: a year query for the year of a FinalRecord shows no error and the
\* winner and runner-up of the record with that year, and of no other record.
C1_YearFound ==
    (Serving /\ yearInput # None /\ (\E r \in Rows(df) : r.Year = yearInput[1])) =>
        /\ yearError = ""
        /\ \A r \in Rows(df) :
              IF r.Year = yearInput[1]
              THEN /\ yearWinner = <<"World Cup Winner in ", r.Year, ": ", r.Winners>>
                   /\ yearRunnerUp = <<"Runner up in ", r.Year, ": ", r.RunnersUp>>
              ELSE yearWinner[2] # r.Year /\ yearRunnerUp[2] # r.Year

C1_Witness ==
    /\ Serving /\ yearInput = Some(2030)
    /\ Len(df) = 2 /\ df[1].Year = 2014 /\ df[1].Winners = "England"
    /\ df[2] = [Year |-> 2030, Winners |-> "Germany", RunnersUp |-> "England"]
    /\ yearWinner = <<"World Cup Winner in ", 2030, ": ", "Germany">>
    /\ yearRunnerUp = <<"Runner up in ", 2030, ": ", "England">>

\* C2: a year query for a present value that is the year of no FinalRecord
\* shows the invalid-year error with the winner and runner-up slots empty.
C2_YearInvalid ==
    (Serving /\ yearInput # None /\ ~(\E r \in Rows(df) : r.Year = yearInput[1])) =>
        /\ yearError = "Invalid WC year"
        /\ yearWinner = <<>>
        /\ yearRunnerUp = <<>>

C2_Witness ==
    /\ Serving /\ yearInput = Some(1942) /\ Len(df) = 2
    /\ yearError = "Invalid WC year" /\ yearWinner = <<>>

\* C3: with the year input absent the three year slots are empty, so no error
\* is shown, and the result differs from the invalid-year result.
C3_YearAbsent ==
    (Serving /\ yearInput = None) =>
        /\ yearError = "" /\ yearWinner = <<>> /\ yearRunnerUp = <<>>
        /\ <<yearError, yearWinner, yearRunnerUp>> # <<"Invalid WC year", <<>>, <<>>>>

C3_Witness ==
    /\ Serving /\ yearInput = None /\ Len(df) = 2
    /\ clickOutput # <<>> /\ yearError = ""

\* C4: a click on a country name that is the country of no GeoEntry is answered
\* with a no-data value; the callback does not raise.
C4_UnknownCountryNoError ==
    (Serving /\ clickData # None /\ ~(\E g \in Rows(merged) : g.Country = ClickedCountry)) =>
        raised = ""

\* C5: a click on the country of a GeoEntry shows that entry's wins, which is
\* the number of finals the country won: 0 for a country that never won.
C5_CountryWins ==
    (Serving /\ clickData # None /\ (\E g \in Rows(merged) : g.Country = ClickedCountry)) =>
        /\ raised = ""
        /\ \A g \in Rows(merged) : g.Country = ClickedCountry =>
              clickOutput = <<g.Country, " has won the World Cup ", g.Wins, " time(s)">>
        /\ clickOutput[3] = CountWon(df, ClickedCountry)

C5_Witness ==
    /\ Serving /\ clickData # None /\ ClickedCountry = "France"
    /\ \E g \in Rows(merged) : g.Country = "France"
    /\ \E r \in Rows(df) : r.Winners = "Germany"
    /\ clickOutput = <<"France", " has won the World Cup ", 0, " time(s)">>

\* C6: the join yields one GeoEntry per row of the ISO reference, in its order
\* and with its code; wins is the WinTotal of the same-spelled country, else 0;
\* a WinTotal for a country the reference does not list adds no entry.
C6_GeoJoin ==
    Prepared =>
        /\ Len(merged) = Len(isoCsv)
        /\ \A i \in 1..Len(merged) :
              /\ merged[i].Country = isoCsv[i].COUNTRY
              /\ merged[i].ISO = isoCsv[i].CODE
              /\ \A w \in Rows(win_totals) : w.Country = merged[i].Country => merged[i].Wins = w.Wins
              /\ (~\E w \in Rows(win_totals) : w.Country = merged[i].Country) => merged[i].Wins = 0
        /\ \A w \in Rows(win_totals) :
              (~\E c \in Rows(isoCsv) : c.COUNTRY = w.Country) =>
                  ~\E g \in Rows(merged) : g.Country = w.Country

C6_Witness ==
    /\ Serving /\ Len(isoCsv) = 2 /\ Len(merged) = 2
    /\ \E w \in Rows(win_totals) : w.Country = "England"
    /\ \E g \in Rows(merged) : g.Country = "Germany" /\ g.Wins = 1
    /\ \E g \in Rows(merged) : g.Country = "France" /\ g.Wins = 0

\* C7: one WinTotal per distinct winner of the FinalRecords, counting that
\* winner's records, so the wins add up to the number of FinalRecords; a
\* country that only ever was runner-up has no WinTotal.
C7_WinTotals ==
    Prepared =>
        /\ \A r \in Rows(df) : \E w \in Rows(win_totals) : w.Country = r.Winners
        /\ \A w \in Rows(win_totals) : w.Wins = CountWon(df, w.Country) /\ w.Wins > 0
        /\ \A i \in 1..Len(win_totals) : \A j \in 1..Len(win_totals) :
              i # j => win_totals[i].Country # win_totals[j].Country
        /\ SumWins(win_totals) = Len(df)

\* C8: after the alias step no FinalRecord names West Germany, every other name
\* is the raw one, Germany's WinTotal counts the retained raw records won by
\* West Germany or Germany, and applying the alias map again changes nothing.
RetainedRaw == LET Keep(r) == r.Year # 2026 IN SelectSeq(tables3, Keep)
GermanWins == Cardinality({i \in 1..Len(RetainedRaw) :
                              RetainedRaw[i].Winners \in {"West Germany", "Germany"}})

C8_Alias ==
    Prepared =>
        /\ \A r \in Rows(df) : r.Winners # "West Germany" /\ r.RunnersUp # "West Germany"
        /\ Len(df) = Len(RetainedRaw)
        /\ \A i \in 1..Len(df) :
              /\ RetainedRaw[i].Winners # "West Germany" => df[i].Winners = RetainedRaw[i].Winners
              /\ RetainedRaw[i].RunnersUp # "West Germany" => df[i].RunnersUp = RetainedRaw[i].RunnersUp
              /\ RetainedRaw[i].Winners = "West Germany" => df[i].Winners = "Germany"
              /\ RetainedRaw[i].RunnersUp = "West Germany" => df[i].RunnersUp = "Germany"
        /\ \A w \in Rows(win_totals) : w.Country = "Germany" => w.Wins = GermanWins
        /\ GermanWins > 0 => \E w \in Rows(win_totals) : w.Country = "Germany"
        /\ ReplaceRunnersUp(ReplaceWinners(df)) = df

C8_Witness ==
    /\ Serving /\ Len(tables3) = 2
    /\ tables3[1].Winners = "West Germany" /\ tables3[1].RunnersUp = "England"
    /\ tables3[2].Winners = "Germany" /\ tables3[2].RunnersUp = "West Germany"
    /\ win_totals = << [Country |-> "Germany", Wins |-> 2] >>
    /\ df[2].RunnersUp = "Germany"

\* C9: every raw row of an edition without a recorded result, whatever its
\* year, is excluded: it is no FinalRecord, is not counted and is no match of a
\* year query; every other raw row yields exactly one FinalRecord.
C9_UnplayedExcluded ==
    Serving =>
        /\ \A r \in Rows(tables3) : r.Winners = NaN =>
              /\ ~\E f \in Rows(df) : f.Year = r.Year
              /\ yearInput = Some(r.Year) => yearError = "Invalid WC year"
        /\ \A r \in Rows(tables3) : r.Winners # NaN =>
              Cardinality({i \in 1..Len(df) : df[i].Year = r.Year}) = 1
        /\ \A f \in Rows(df) : DOMAIN f = {"Year", "Winners", "RunnersUp"}

\* C10: while the app runs no event changes the prepared data; a year query
\* leaves the click output as it was, a map click leaves the three year slots
\* as they were, and a year query repeating the current input repeats the result.
C10_Frame ==
    [][Serving =>
        /\ data' = data
        /\ (YearEntered \/ YearCleared) => clickOutput' = clickOutput
        /\ (MapClick \/ ClickCleared) =>
              <<yearError, yearWinner, yearRunnerUp>>' = <<yearError, yearWinner, yearRunnerUp>>
        /\ ((YearEntered \/ YearCleared) /\ yearInput' = yearInput) =>
              <<yearError, yearWinner, yearRunnerUp>>' = <<yearError, yearWinner, yearRunnerUp>>
      ]_vars

C10_Witness ==
    /\ Serving /\ yearInput = Some(1942) /\ yearError = "Invalid WC year"
    /\ clickData # None /\ raised = "IndexError"
    /\ clickOutput = <<"Germany", " has won the World Cup ", 1, " time(s)">>

====
